---- MODULE Spec2Model ----
(***************************************************************************)
(* Model of data/process_data.py: the ETL pipeline load_data ->            *)
(* clean_data -> save_data driven by main.                                 *)
(*                                                                         *)
(* A Python string is a sequence of atoms.  An atom is a word without      *)
(* separators ("related"), a separator ("-" or ";"), or one character of a *)
(* value ("0".."9", "x").  A DataFrame is a record                         *)
(*   [raised, columns, rows]                                               *)
(* with columns a sequence of column labels (strings) and rows a sequence  *)
(* of tuples; raised = TRUE stands for a call that ended in an uncaught    *)
(* exception instead of returning.                                         *)
(***************************************************************************)
EXTENDS Integers, Sequences, FiniteSets, TLC

VARIABLES pc, argv, messages, categories, merged, df, store, writable, calls,
          stdout, runs

vars ==
    <<pc, argv, messages, categories, merged, df, store, writable, calls, stdout,
      runs>>

(***************************************************************************)
(* Bounds of the model.                                                    *)
(***************************************************************************)
MaxMsgRows == 2
MaxCatRows == 2
MaxRuns == 2

(***************************************************************************)
(* Values.                                                                 *)
(***************************************************************************)
Str(w) == <<w>>

\* A missing field (float nan) and the None padding of str.split(expand=True):
\* markers that no string of the inputs equals.
NaN == <<"NaN">>
None == <<"None">>

Digits == {"0", "1", "2", "3", "4", "5", "6", "7", "8", "9"}

\* int() of one digit character, as pd.to_numeric gives it
DigitVal(c) ==
    CASE c = "0" -> 0 [] c = "1" -> 1 [] c = "2" -> 2 [] c = "3" -> 3
      [] c = "4" -> 4 [] c = "5" -> 5 [] c = "6" -> 6 [] c = "7" -> 7
      [] c = "8" -> 8 [] c = "9" -> 9

\* The result of a call that raised.
Raise == [raised |-> TRUE, columns |-> <<>>, rows |-> <<>>]

DataFrame(cols, rws) == [raised |-> FALSE, columns |-> cols, rows |-> rws]

Range(s) == {s[i] : i \in DOMAIN s}

RECURSIVE Flatten(_)
Flatten(ss) == IF ss = <<>> THEN <<>> ELSE Head(ss) \o Flatten(Tail(ss))

\* Positions of the columns labelled `label`
ColPos(d, label) == {i \in DOMAIN d.columns : d.columns[i] = label}

\* d[label] for a label that names one column: the column's values by row
Column(d, label) ==
    LET k == CHOOSE i \in ColPos(d, label) : TRUE
    IN  [i \in DOMAIN d.rows |-> d.rows[i][k]]

\* A sequence with the positions in `drop` removed
RECURSIVE Keep(_, _, _)
Keep(s, dropped, i) ==
    IF i > Len(s) THEN <<>>
    ELSE (IF i \in dropped THEN <<>> ELSE <<s[i]>>) \o Keep(s, dropped, i + 1)

(***************************************************************************)
(* Python str.split(sep): the substrings between occurrences of sep.       *)
(***************************************************************************)
RECURSIVE split(_, _)
split(s, sep) ==
    IF \A i \in DOMAIN s : s[i] # sep THEN <<s>>
    ELSE LET k == CHOOSE i \in DOMAIN s :
                      s[i] = sep /\ \A j \in 1..(i - 1) : s[j] # sep
         IN  <<SubSeq(s, 1, k - 1)>> \o split(SubSeq(s, k + 1, Len(s)), sep)

(***************************************************************************)
(* load_data                                                               *)
(***************************************************************************)
\* pd.read_csv(path, index_col=0): fails on a missing file; the first
\* column of the file becomes the index and is no data column.
read_csv(file) ==
    IF ~file.exists THEN Raise
    ELSE DataFrame(Tail(file.columns),
                   [i \in DOMAIN file.rows |-> Tail(file.rows[i])])

\* Variant of merge: a lookup join, each left row meets at most the first
\* right row with its key.
merge_first_match(left, right, on) ==
    LET lk == CHOOSE i \in ColPos(left, on) : TRUE
        rk == CHOOSE i \in ColPos(right, on) : TRUE
        Matches(l) == SelectSeq(right.rows, LAMBDA r : r[rk] = l[lk])
        missing == [j \in 1..(Len(right.columns) - 1) |-> NaN]
        Joined(l) ==
            IF Matches(l) = <<>> THEN l \o missing
            ELSE l \o Keep(Matches(l)[1], {rk}, 1)
    IN  DataFrame(left.columns \o Keep(right.columns, {rk}, 1),
                  [i \in DOMAIN left.rows |-> Joined(left.rows[i])])

\* Variant of merge: how='inner', a left row without a right row is lost.
merge_inner(left, right, on) ==
    LET lk == CHOOSE i \in ColPos(left, on) : TRUE
        rk == CHOOSE i \in ColPos(right, on) : TRUE
        Matches(l) == SelectSeq(right.rows, LAMBDA r : r[rk] = l[lk])
        Joined(l) ==
            [j \in DOMAIN Matches(l) |-> l \o Keep(Matches(l)[j], {rk}, 1)]
    IN  DataFrame(left.columns \o Keep(right.columns, {rk}, 1),
                  Flatten([i \in DOMAIN left.rows |-> Joined(left.rows[i])]))

\* left.merge(right, how='left', on=[on]): every left row in order, once per
\* right row with the same key, or once with missing right fields when
\* there is none.
merge(left, right, on) ==
    LET lk == CHOOSE i \in ColPos(left, on) : TRUE
        rk == CHOOSE i \in ColPos(right, on) : TRUE
        Matches(l) == SelectSeq(right.rows, LAMBDA r : r[rk] = l[lk])
        missing == [j \in 1..(Len(right.columns) - 1) |-> NaN]
        Joined(l) ==
            IF Matches(l) = <<>> THEN << l \o missing >>
            ELSE [j \in DOMAIN Matches(l) |-> l \o Keep(Matches(l)[j], {rk}, 1)]
    IN  DataFrame(left.columns \o Keep(right.columns, {rk}, 1),
                  Flatten([i \in DOMAIN left.rows |-> Joined(left.rows[i])]))

load_data(messages_file, categories_file) ==
    LET m == read_csv(messages_file)
        c == read_csv(categories_file)
    IN  IF m.raised \/ c.raised THEN Raise
        ELSE merge(m, c, Str("id"))

(***************************************************************************)
(* clean_data                                                              *)
(***************************************************************************)
Max(S) == CHOOSE x \in S : \A y \in S : y <= x

\* Series.str.split(sep, expand=True): one column per token position, as
\* many as the longest row has; a missing field gives a row of missing
\* fields and a shorter row is padded with None.  Columns are labelled
\* 0 .. n-1.
str_split_expand(col, sep) ==
    LET toks == [i \in DOMAIN col |->
                    IF col[i] = NaN THEN <<>> ELSE split(col[i], sep)]
        n == IF col = <<>> THEN 0
             ELSE Max({Len(toks[i]) : i \in DOMAIN col} \cup {1})
        cell(i, j) == IF col[i] = NaN THEN NaN
                      ELSE IF j <= Len(toks[i]) THEN toks[i][j]
                      ELSE None
    IN  DataFrame([j \in 1..n |-> j - 1],
                  [i \in DOMAIN col |-> [j \in 1..n |-> cell(i, j)]])

\* lambda x: x.split('-')[0]
ColName(x) == split(x, "-")[1]

\* lambda x: x[-1]
LastChar(x) == x[Len(x)]

\* whether x[-1] followed by pd.to_numeric raises on this cell: the cell is
\* no string (TypeError), is the empty string (IndexError), or ends in a
\* character that is no digit (ValueError)
DecodeRaises(x) ==
    \/ x \in {NaN, None}
    \/ x = <<>>
    \/ LastChar(x) \notin Digits

\* Variant of Decode: the whole value after the final '-' parsed as an integer.
RECURSIVE ToInt(_)
ToInt(cs) ==
    IF cs = <<>> THEN 0
    ELSE 10 * ToInt(SubSeq(cs, 1, Len(cs) - 1)) + DigitVal(cs[Len(cs)])

Decode_whole_value(x) ==
    LET parts == split(x, "-")
        v == parts[Len(parts)]
    IN  IF \A k \in DOMAIN v : v[k] \in Digits THEN ToInt(v)
        ELSE DigitVal(LastChar(x))

\* the integer a cell becomes in lines 51-52
Decode(x) == DigitVal(LastChar(x))

\* Variant of ConvertColumns: every row gets the values of the first row (the
\* row the names were taken from).
ConvertColumns_first_row(c) ==
    IF \E i, j \in DOMAIN c.columns : i # j /\ c.columns[i] = c.columns[j]
    THEN Raise
    ELSE IF \E i \in DOMAIN c.rows : \E j \in DOMAIN c.columns :
                DecodeRaises(c.rows[i][j])
    THEN Raise
    ELSE DataFrame(c.columns,
                   [i \in DOMAIN c.rows |->
                       [j \in DOMAIN c.columns |-> Decode(c.rows[1][j])]])

\* the loop of lines 50-52 over a frame whose columns carry the derived
\* names.  categories[column] on a label that names several columns is a
\* frame, and x[-1] on its integer-indexed columns raises KeyError.
ConvertColumns(c) ==
    IF \E i, j \in DOMAIN c.columns : i # j /\ c.columns[i] = c.columns[j]
    THEN Raise
    ELSE IF \E i \in DOMAIN c.rows : \E j \in DOMAIN c.columns :
                DecodeRaises(c.rows[i][j])
    THEN Raise
    ELSE DataFrame(c.columns,
                   [i \in DOMAIN c.rows |->
                       [j \in DOMAIN c.columns |-> Decode(c.rows[i][j])]])

\* pd.concat([a, b], axis=1) of two frames with the same row index
concat(a, b) ==
    DataFrame(a.columns \o b.columns,
              [i \in DOMAIN a.rows |-> a.rows[i] \o b.rows[i]])

\* df.drop(label, axis=1): removes every column with that label, KeyError
\* when there is none
drop(d, label) ==
    IF d.raised \/ ColPos(d, label) = {} THEN Raise
    ELSE DataFrame(Keep(d.columns, ColPos(d, label), 1),
                   [i \in DOMAIN d.rows |-> Keep(d.rows[i], ColPos(d, label), 1)])

\* df[df[label] != v]
FilterNe(d, label, v) ==
    IF d.raised \/ ColPos(d, label) = {} THEN Raise
    ELSE LET col == Column(d, label)
         IN  DataFrame(d.columns,
                       Keep(d.rows, {i \in DOMAIN d.rows : col[i] = v}, 1))

\* Variant of drop_duplicates: called without inplace=True, its result is lost.
drop_duplicates_not_inplace(d) == d

\* df.drop_duplicates(): of the rows equal in every column the first stays
drop_duplicates(d) ==
    IF d.raised THEN Raise
    ELSE DataFrame(d.columns,
                   Keep(d.rows,
                        {i \in DOMAIN d.rows :
                            \E j \in 1..(i - 1) : d.rows[j] = d.rows[i]}, 1))

clean_data(d) ==
    IF ColPos(d, Str("categories")) = {} THEN Raise
    ELSE
    LET categories0 == str_split_expand(Column(d, Str("categories")), ";")
    IN  IF categories0.rows = <<>> THEN Raise
        ELSE
        LET row == categories0.rows[1]
        IN  IF \E j \in DOMAIN row : row[j] \in {NaN, None} THEN Raise
            ELSE
            LET category_colnames == [j \in DOMAIN row |-> ColName(row[j])]
                numeric == ConvertColumns(
                               DataFrame(category_colnames, categories0.rows))
            IN  IF numeric.raised THEN Raise
                ELSE drop_duplicates(
                         FilterNe(
                             drop(drop(concat(d, numeric), Str("categories")),
                                  Str("child_alone")),
                             Str("related"), 2))

(***************************************************************************)
(* save_data                                                               *)
(***************************************************************************)
\* The file-backed store at one path: whether the file exists and the
\* tables it holds.
NoStore == [exists |-> FALSE, tables |-> {}]

HasTable(db, name) == \E t \in db.tables : t.name = name

\* Variant of to_sql: if_exists='replace'.
to_sql_replace(d, name, db) ==
    [raised |-> FALSE,
     db |-> [exists |-> TRUE,
             tables |-> {t \in db.tables : t.name # name} \cup
                 {[name |-> name, columns |-> d.columns, rows |-> d.rows]}]]

\* DataFrame.to_sql(name, engine, index=False) with the default
\* if_exists='fail': connecting creates the file; an existing table of that
\* name raises ValueError; otherwise the table is created and the rows are
\* inserted, without an index column.
to_sql(d, name, db) ==
    IF HasTable(db, name) THEN [raised |-> TRUE, db |-> db]
    ELSE [raised |-> FALSE,
          db |-> [exists |-> TRUE,
                  tables |-> db.tables \cup
                      {[name |-> name, columns |-> d.columns, rows |-> d.rows]}]]

\* save_data(df, database_filename) on the store found at that path; an
\* unwritable destination makes the connection fail.
save_data(d, database_filename, db, can_write) ==
    IF ~can_write THEN [raised |-> TRUE, db |-> db]
    ELSE to_sql(d, database_filename, db)

(***************************************************************************)
(* Inputs: the files and command lines the runs are given.                 *)
(***************************************************************************)
SeqsUpTo(S, n) == UNION {[1..k -> S] : k \in 0..n}

RECURSIVE Join(_, _)
Join(parts, sep) ==
    IF parts = <<>> THEN <<>>
    ELSE IF Len(parts) = 1 THEN parts[1]
    ELSE parts[1] \o <<sep>> \o Join(Tail(parts), sep)

\* one `name-value` pair; a name or a value is itself a string
Token(name, value) == name \o <<"-">> \o value

Packed(tokens) == Join(tokens, ";")

\* A csv file holding `rws` under the header `cols`, behind a first column
\* with the row positions.
File(cols, rws) ==
    [exists |-> TRUE,
     columns |-> <<Str("")>> \o cols,
     rows |-> [i \in DOMAIN rws |-> <<i - 1>> \o rws[i]]]

MissingFile == [exists |-> FALSE, columns |-> <<>>, rows |-> <<>>]

Ids == {1, 2}

Texts == {Str("help")}

MessagesFiles ==
    {File(<<Str("id"), Str("message")>>, r) :
        r \in SeqsUpTo(Ids \X Texts, MaxMsgRows)}

CategoriesFiles(strings) ==
    {File(<<Str("id"), Str("categories")>>, r) :
        r \in SeqsUpTo(Ids \X strings, MaxCatRows)}

Related(v) == Token(Str("related"), v)
Offer(v) == Token(Str("offer"), v)
ChildAlone(v) == Token(Str("child_alone"), v)
Request(v) == Token(Str("request"), v)
AidRelated(v) == Token(<<"aid", "-", "related">>, v)

\* related-1;offer-0;child_alone-0 and its variations
CatA == Packed(<<Related(<<"1">>), Offer(<<"0">>), ChildAlone(<<"0">>)>>)
CatB == Packed(<<Related(<<"1">>), Offer(<<"1">>), ChildAlone(<<"0">>)>>)
CatRelated2 == Packed(<<Related(<<"2">>), Offer(<<"0">>), ChildAlone(<<"0">>)>>)
CatRelated3 ==
    Packed(<<Related(<<"3">>), Offer(<<"1", "0">>), ChildAlone(<<"0">>)>>)
CatRelated12 ==
    Packed(<<Related(<<"1", "2">>), Offer(<<"0">>), ChildAlone(<<"0">>)>>)
CatNotDigit == Packed(<<Related(<<"1">>), Offer(<<"x">>), ChildAlone(<<"0">>)>>)
CatNoChildAlone == Packed(<<Related(<<"1">>), Offer(<<"0">>), Request(<<"1">>)>>)
CatHyphenName ==
    Packed(<<Related(<<"0">>), AidRelated(<<"1">>), ChildAlone(<<"0">>)>>)

CatStrings ==
    {CatA, CatB, CatRelated2, CatRelated3, CatRelated12, CatNotDigit,
     CatNoChildAlone, CatHyphenName}

\* the strings the runs of main are given
MainCatStrings == {CatA}

DbPaths == {"DisasterResponse.db", "Other.db"}

Program == "process_data.py"

\* sys.argv: the program name and 0 to 4 positional arguments
ArgLists ==
    {<<Program>>,
     <<Program, "messages.csv">>,
     <<Program, "messages.csv", "categories.csv">>,
     <<Program, "messages.csv", "categories.csv", "a.db", "extra">>}
    \cup {<<Program, "messages.csv", "categories.csv", p>> : p \in DbPaths}

NoFrame == DataFrame(<<>>, <<>>)

(***************************************************************************)
(* main, one process per run.                                              *)
(*   pc: "idle"  no process is running                                     *)
(*       "main"  main entered, line 81 next                                *)
(*       "clean" load_data returned, line 89 next                          *)
(*       "save"  clean_data returned, line 92 next                         *)
(*       "saved" save_data returned, line 95 next                          *)
(*       "exit"  main returned                                             *)
(*       "abort" an exception left main uncaught                           *)
(***************************************************************************)
\* Variant of ArgsOk: len(sys.argv) >= 4.
ArgsOk_at_least(args) == Len(args) >= 4

\* len(sys.argv) == 4
ArgsOk(args) == Len(args) = 4

\* Variant of AfterStage: the exception is caught and main carries on.
AfterStage_swallow(raised, next) == next

\* where main goes after a stage: no try/except around any call
AfterStage(raised, next) == IF raised THEN "abort" ELSE next

Init ==
    /\ pc = "idle"
    /\ argv = <<>>
    /\ messages = MissingFile
    /\ categories = MissingFile
    /\ merged = NoFrame
    /\ df = NoFrame
    /\ store = [p \in DbPaths |-> NoStore]
    /\ writable \in BOOLEAN
    /\ calls = <<>>
    /\ stdout = <<>>
    /\ runs = 0

\* the program is started with some command line; whether the destination
\* can be written is the environment's choice
Start ==
    /\ pc \in {"idle", "exit", "abort"}
    /\ runs < MaxRuns
    /\ \E a \in ArgLists : argv' = a
    /\ pc' = "main"
    /\ runs' = runs + 1
    /\ messages' = MissingFile
    /\ categories' = MissingFile
    /\ merged' = NoFrame
    /\ df' = NoFrame
    /\ calls' = <<>>
    /\ stdout' = <<>>
    /\ writable' \in BOOLEAN
    /\ UNCHANGED store

\* lines 97-103
Usage ==
    /\ pc = "main"
    /\ ~ArgsOk(argv)
    /\ stdout' = Append(stdout, "usage")
    /\ pc' = "exit"
    /\ UNCHANGED <<argv, messages, categories, merged, df, store, writable, calls,
                   runs>>

\* lines 83-87, on the files found at the two paths
LoadFrom(mfiles, cfiles) ==
    /\ pc = "main"
    /\ ArgsOk(argv)
    /\ \E mf \in mfiles, cf \in cfiles :
          /\ messages' = mf
          /\ categories' = cf
          /\ merged' = load_data(mf, cf)
          /\ pc' = AfterStage(merged'.raised, "clean")
    /\ stdout' = Append(stdout, "Loading data...")
    /\ calls' = Append(calls, "load_data")
    /\ UNCHANGED <<argv, df, store, writable, runs>>

Load ==
    LoadFrom(MessagesFiles \cup {MissingFile},
             CategoriesFiles(MainCatStrings) \cup {MissingFile})

\* lines 89-90
Clean ==
    /\ pc = "clean"
    /\ df' = clean_data(merged)
    /\ pc' = AfterStage(df'.raised, "save")
    /\ stdout' = Append(stdout, "Cleaning data...")
    /\ calls' = Append(calls, "clean_data")
    /\ UNCHANGED <<argv, messages, categories, merged, store, writable, runs>>

\* lines 92-93; database_filepath is the third positional argument
Save ==
    /\ pc = "save"
    /\ LET r == save_data(df, argv[4], store[argv[4]], writable)
       IN  /\ store' = [store EXCEPT ![argv[4]] = r.db]
           /\ pc' = AfterStage(r.raised, "saved")
    /\ stdout' = Append(stdout, "Saving data...")
    /\ calls' = Append(calls, "save_data")
    /\ UNCHANGED <<argv, messages, categories, merged, df, writable, runs>>

\* line 95
Report ==
    /\ pc = "saved"
    /\ stdout' = Append(stdout, "Cleaned data saved to database!")
    /\ pc' = "exit"
    /\ UNCHANGED <<argv, messages, categories, merged, df, store, writable, calls,
                   runs>>

Next == Start \/ Usage \/ Load \/ Clean \/ Save \/ Report

Spec == Init /\ [][Next]_vars

(***************************************************************************)
(* load_data and clean_data as functions of their inputs: one call of     *)
(* each on every pair of files over the full set of category strings.     *)
(***************************************************************************)
InitETL ==
    /\ pc = "main"
    /\ argv = <<Program, "messages.csv", "categories.csv", "DisasterResponse.db">>
    /\ messages = MissingFile
    /\ categories = MissingFile
    /\ merged = NoFrame
    /\ df = NoFrame
    /\ store = [p \in DbPaths |-> NoStore]
    /\ writable = TRUE
    /\ calls = <<>>
    /\ stdout = <<>>
    /\ runs = 1

LoadETL == LoadFrom(MessagesFiles, CategoriesFiles(CatStrings))

NextETL == LoadETL \/ Clean

SpecETL == InitETL /\ [][NextETL]_vars

(***************************************************************************)
(* Vocabulary of the properties.  The packed strings are read here the    *)
(* way the specification describes them: `name-value` tokens joined by    *)
(* ';', the name being everything before the final '-'.                   *)
(***************************************************************************)
LoadReturned == Len(calls) >= 1 /\ ~merged.raised
CleanCalled == Len(calls) >= 2
CleanReturned == CleanCalled /\ ~df.raised
SaveCalled == Len(calls) = 3

\* number of rows carrying x in column k
CountIn(rws, k, x) == Cardinality({i \in DOMAIN rws : rws[i][k] = x})

\* the ids of the Messages file (its rows are <<position, id, message>>)
MsgIds == {messages.rows[i][2] : i \in DOMAIN messages.rows}

\* the `categories` field of the i-th merged row
CatField(i) == merged.rows[i][3]

Tokens(s) == split(s, ";")

Dashes(x) == {k \in DOMAIN x : x[k] = "-"}

\* the name portion of a `name-value` token
NamePart(x) == IF Dashes(x) = {} THEN x ELSE SubSeq(x, 1, Max(Dashes(x)) - 1)

\* the part of a token before its first '-'
FirstPart(x) ==
    IF Dashes(x) = {} THEN x
    ELSE SubSeq(x, 1, (CHOOSE k \in Dashes(x) : \A m \in Dashes(x) : k <= m) - 1)

\* the digit a token ends in
FinalDigit(x) == DigitVal(x[Len(x)])

LabelList(s) ==
    LET toks == Tokens(s) IN [j \in DOMAIN toks |-> NamePart(toks[j])]

DerivedNames(s) ==
    LET toks == Tokens(s) IN [j \in DOMAIN toks |-> FirstPart(toks[j])]

IsChildAlone(n) == n = Str("child_alone")

\* every merged row has a categories field, and all carry the same labels
SharedLabels ==
    /\ merged.rows # <<>>
    /\ \A i \in DOMAIN merged.rows : CatField(i) # NaN
    /\ LET first == LabelList(CatField(1))
       IN  \A i \in DOMAIN merged.rows : LabelList(CatField(i)) = first

EndsInDigit(x) == x # <<>> /\ x[Len(x)] \in Digits

ValuesAreDigits ==
    \A i \in DOMAIN merged.rows :
        LET toks == Tokens(CatField(i))
        IN  \A j \in DOMAIN toks : EndsInDigit(toks[j])

\* the output's columns are id, message and `names` without child_alone
LabelColumnsAre(names) ==
    df.columns = <<Str("id"), Str("message")>>
                    \o SelectSeq(names, LAMBDA n : ~IsChildAlone(n))

\* the output column of the j-th label
OutPos(names, j) == 2 + Cardinality({k \in 1..j : ~IsChildAlone(names[k])})

\* every output row is some merged row with each label column holding the
\* final digit of that row's own token for the label
RowsHoldOwnTokens(names) ==
    \A r \in DOMAIN df.rows : \E i \in DOMAIN merged.rows :
        /\ df.rows[r][1] = merged.rows[i][1]
        /\ df.rows[r][2] = merged.rows[i][2]
        /\ LET toks == Tokens(CatField(i))
           IN  \A j \in DOMAIN names :
                   ~IsChildAlone(names[j]) =>
                       df.rows[r][OutPos(names, j)] = FinalDigit(toks[j])

\* some Messages row has no Categories row with its id
Unmatched ==
    \E i \in DOMAIN messages.rows : \A k \in DOMAIN categories.rows :
        categories.rows[k][2] # messages.rows[i][2]

Dest == argv[4]

(***************************************************************************)
(* C1  load_data                                                           *)
(***************************************************************************)
\* C1 as stated: every id of the Messages input appears exactly once in the
\* merged output, also when Categories holds zero or several rows for it.
C1_IdExactlyOnce ==
    LoadReturned => \A x \in MsgIds : CountIn(merged.rows, 1, x) = 1

\* C1 amended: every id of the Messages input appears in the merged output
\* at least once; the number of its rows is the number of Messages rows with
\* that id times the number of Categories rows with it, a Categories count
\* of zero counting as one.
C1_LeftJoinCounts ==
    LoadReturned =>
        \A x \in MsgIds :
            /\ CountIn(merged.rows, 1, x) >= 1
            /\ CountIn(merged.rows, 1, x) =
                   CountIn(messages.rows, 2, x)
                       * Max({1, CountIn(categories.rows, 2, x)})

C1_Witness ==
    /\ LoadReturned
    /\ \E x \in MsgIds : CountIn(categories.rows, 2, x) = 2
    /\ \E y \in MsgIds : CountIn(categories.rows, 2, y) = 0

(***************************************************************************)
(* C2  the `related` filter                                                *)
(***************************************************************************)
\* C2 as stated: whenever clean_data returns, every row of its result has
\* `related` equal to 0 or 1.
C2_RelatedBinary ==
    CleanReturned =>
        \A i \in DOMAIN df.rows : Column(df, Str("related"))[i] \in {0, 1}

(***************************************************************************)
(* C3  label columns                                                       *)
(***************************************************************************)
\* C3 as stated: on a merged record set whose rows share one label list that
\* contains `related` (values being digits), clean_data returns a record set
\* with one integer column per label name other than child_alone, each row
\* holding its own tokens' values.
C3_LabelColumnsAnyList ==
    (/\ CleanCalled
     /\ SharedLabels
     /\ ValuesAreDigits
     /\ Str("related") \in Range(LabelList(CatField(1))))
    => (/\ ~df.raised
        /\ LabelColumnsAre(LabelList(CatField(1)))
        /\ RowsHoldOwnTokens(LabelList(CatField(1))))

\* C3 amended: on a merged record set whose rows share one label list that
\* contains `related` and `child_alone`, whose values all end in a digit and
\* whose tokens differ in the part before their first '-', clean_data
\* returns a record set with one integer column per label other than
\* child_alone, named by the part of the first row's token before its first
\* '-', each surviving row holding the final digit of its own tokens.
C3_LabelColumns ==
    (/\ CleanCalled
     /\ SharedLabels
     /\ ValuesAreDigits
     /\ Str("related") \in Range(LabelList(CatField(1)))
     /\ Str("child_alone") \in Range(LabelList(CatField(1)))
     /\ LET names == DerivedNames(CatField(1))
        IN  \A j, k \in DOMAIN names : j # k => names[j] # names[k])
    => (/\ ~df.raised
        /\ LET names == DerivedNames(CatField(1))
           IN  LabelColumnsAre(names) /\ RowsHoldOwnTokens(names))

\* two rows with distinct ids and different values both survive
C3_Witness ==
    /\ CleanReturned
    /\ SharedLabels
    /\ Str("child_alone") \in Range(LabelList(CatField(1)))
    /\ Len(df.rows) = 2
    /\ df.rows[1][1] # df.rows[2][1]
    /\ df.rows[1][4] # df.rows[2][4]

(***************************************************************************)
(* C4  derived column names                                                *)
(***************************************************************************)
\* C4 as stated: the label column names clean_data derives are the name
\* portions of the first row's tokens (everything before the final '-'),
\* also for a name that contains '-'.
C4_NamesAreNameParts ==
    CleanReturned => LabelColumnsAre(LabelList(CatField(1)))

(***************************************************************************)
(* C5  deduplication                                                       *)
(***************************************************************************)
\* C5: the record set clean_data returns holds no two equal rows, and
\* deduplicating it again leaves it unchanged.
C5_NoDuplicateRows ==
    CleanReturned =>
        /\ \A i, j \in DOMAIN df.rows : i # j => df.rows[i] # df.rows[j]
        /\ drop_duplicates(df) = df

\* equal merged rows have collapsed into one surviving row
C5_Witness ==
    /\ CleanReturned
    /\ \E i, j \in DOMAIN merged.rows : i # j /\ merged.rows[i] = merged.rows[j]
    /\ Len(df.rows) = 1

(***************************************************************************)
(* C6  usage                                                               *)
(***************************************************************************)
\* C6: entered with a number of positional arguments other than three, main
\* prints the usage message and returns: no stage is called and the
\* destination store is left as it was.
C6_UsageOnly ==
    [][(pc = "main" /\ Len(argv) - 1 # 3) =>
          /\ pc' = "exit"
          /\ stdout' = <<"usage">>
          /\ calls' = <<>>
          /\ store' = store]_vars

\* a usage-only run next to a store an earlier run has filled
C6_Witness ==
    /\ pc = "exit"
    /\ Len(argv) - 1 = 2
    /\ stdout = <<"usage">>
    /\ \E p \in DbPaths : store[p].tables # {}

(***************************************************************************)
(* C7  save_data                                                           *)
(***************************************************************************)
\* C7 as stated: once save_data was called on a writable destination the
\* write has succeeded and the store holds the table named after the
\* destination path, also when the store held that table before.
C7_RewriteSucceeds ==
    (SaveCalled /\ writable) =>
        /\ pc \in {"saved", "exit"}
        /\ store[Dest].exists
        /\ HasTable(store[Dest], Dest)

\* C7 amended: on a writable destination whose store does not hold the
\* table, save_data writes the cleaned record set as one table named after
\* the destination path, creating the store if absent; when the store
\* already holds that table, save_data raises, the run aborts and the store
\* is left unchanged.
C7_SaveFailsOnExistingTable ==
    [][(pc = "save" /\ writable) =>
          IF HasTable(store[Dest], Dest)
          THEN pc' = "abort" /\ store' = store
          ELSE /\ pc' = "saved"
               /\ store' =
                      [store EXCEPT ![Dest] =
                          [exists |-> TRUE,
                           tables |-> store[Dest].tables \cup
                               {[name |-> Dest, columns |-> df.columns,
                                 rows |-> df.rows]}]]]_vars

\* a second run with the same destination has failed in save_data
C7_Witness ==
    /\ pc = "abort"
    /\ SaveCalled
    /\ writable
    /\ HasTable(store[Dest], Dest)

(***************************************************************************)
(* C8  order of the stages                                                 *)
(***************************************************************************)
StageOrder == <<"load_data", "clean_data", "save_data">>

C8_Inv ==
    /\ Len(calls) <= 3
    /\ calls = SubSeq(StageOrder, 1, Len(calls))
    /\ Len(calls) >= 2 => ~merged.raised
    /\ Len(calls) = 3 => ~df.raised
    /\ merged.raised => (pc = "abort" /\ Len(calls) = 1)
    /\ df.raised => (pc = "abort" /\ Len(calls) = 2)
    /\ (pc = "abort" /\ Len(calls) < 3) => (merged.raised \/ df.raised)
    /\ "Cleaned data saved to database!" \in Range(stdout) =>
          /\ pc = "exit"
          /\ Len(calls) = 3
          /\ HasTable(store[Dest], Dest)

\* C8: in a run with three arguments the stages are called in the order
\* load_data, clean_data, save_data, each at most once and only after the
\* one before returned; a stage that raises aborts the run, so after a
\* failure of load_data or clean_data save_data is not called and the store
\* is unchanged; the final message is printed only after save_data returned.
C8_StagesInOrder ==
    /\ []C8_Inv
    /\ [][/\ Len(calls') < 3 => store' = store
          /\ pc = "abort" => (pc' = "main" /\ calls' = <<>>)
          /\ calls' # calls => (calls' = <<>> \/ calls' = Append(calls, StageOrder[Len(calls')]))
       ]_vars

\* clean_data has failed in a run next to a store an earlier run has filled
C8_Witness ==
    /\ pc = "abort"
    /\ Len(calls) = 2
    /\ df.raised
    /\ \E p \in DbPaths : store[p].tables # {}

(***************************************************************************)
(* C9  decoding of the values                                              *)
(***************************************************************************)
\* C9: clean_data decodes every token to the digit it ends in (related-12
\* decodes to 2 and its row is dropped by the filter on `related`), and a
\* token that ends in a character other than a digit makes clean_data raise.
C9_FinalCharDecoding ==
    CleanCalled =>
        /\ (\E i \in DOMAIN merged.rows :
               /\ CatField(i) # NaN
               /\ LET toks == Tokens(CatField(i))
                  IN  \E j \in DOMAIN toks :
                          toks[j] # <<>> /\ toks[j][Len(toks[j])] \notin Digits)
           => df.raised
        /\ ~df.raised =>
              /\ LET names == DerivedNames(CatField(1))
                 IN  RowsHoldOwnTokens(names)
              /\ \A r \in DOMAIN df.rows : Column(df, Str("related"))[r] # 2

\* offer-10 survives as 0 while the row with related-12 is gone
C9_Witness ==
    /\ CleanReturned
    /\ \E i \in DOMAIN merged.rows : CatField(i) = CatRelated12
    /\ \E i \in DOMAIN merged.rows : CatField(i) = CatRelated3
    /\ Len(df.rows) = 1
    /\ df.rows[1][4] = 0

(***************************************************************************)
(* C10  Messages rows without Categories                                   *)
(***************************************************************************)
\* C10: when some Messages row has no Categories row, clean_data raises on
\* the merged record set; the run of main aborts there, save_data is not
\* called and the store stays as it was.
C10_UnmatchedAborts ==
    /\ []((LoadReturned /\ Unmatched) =>
             /\ Len(calls) <= 2
             /\ Len(calls) = 2 => (df.raised /\ pc = "abort"))
    /\ [][(LoadReturned /\ Unmatched) => store' = store]_vars

\* the run has aborted in clean_data although one row had its categories
C10_Witness ==
    /\ pc = "abort"
    /\ Len(calls) = 2
    /\ Unmatched
    /\ \E i \in DOMAIN merged.rows : CatField(i) # NaN

====
